---- MODULE Spec2Model ----
(***************************************************************************)
(* Model of memory_machine (src/main.py): the two ingestion functions      *)
(* load_spotify_history and load_photos, the sampler                       *)
(* get_random_photo_and_song and the interactive handler                   *)
(* MemoryMachine.next_item with its collaborators play_audio and           *)
(* show_image.                                                             *)
(*                                                                         *)
(* Three specifications share the variables below:                         *)
(*   SpecHistory  one call of load_spotify_history(folder)                 *)
(*   SpecPhotos   one call of load_photos(folder)                          *)
(*   SpecMachine  MemoryMachine() over the two global bucket collections   *)
(***************************************************************************)
EXTENDS Integers, Sequences, FiniteSets, TLC

VARIABLES
    \* ---- load_spotify_history
    spotify_dir,     \* the files Path(folder).glob('Streams*.json') yields, in order
    file_i,          \* how many of them the for loop of line 23 has taken
    data,            \* local `data` (line 26, rebound at line 35)
    entry_i,         \* how many entries of `data` the loop of line 42 has taken
    dt,              \* local `dt` (lines 46, 49); function scope, so it outlives an iteration
    tracks_by_week,  \* local `tracks_by_week` (line 21)
    hpc,             \* position inside load_spotify_history
    hout,            \* what load_spotify_history printed, oldest first
    \* ---- load_photos
    photo_dir,       \* the directory entries of the photo folder, in glob order
    photo_i,         \* how many of them the for loop of line 88 has taken
    photos_by_week,  \* local `photos_by_week` (line 87)
    ppc,             \* position inside load_photos
    \* ---- MemoryMachine
    tracks,          \* global `tracks` (line 190)
    photos,          \* global `photos` (line 191)
    pc,              \* position of the interactive program
    caller,          \* who called next_item: "__init__" (line 123) or "mainloop" (Tk binding)
    sample,          \* locals track, photo, week of next_item (line 129)
    devices,         \* local `devices` of play_audio (line 166)
    current,         \* self.current_track, self.current_photo, self.current_week
    playing,         \* what the playback collaborator was last told to play
    tk_img,          \* the path of the image self.label shows
    escaped,         \* the exception that last propagated out of next_item
    mout,            \* what the last next_item invocation printed
    clicks           \* input events dispatched to next_item so far

hvars == <<spotify_dir, file_i, data, entry_i, dt, tracks_by_week, hpc, hout>>
pvars == <<photo_dir, photo_i, photos_by_week, ppc>>
mvars == <<tracks, photos, pc, caller, sample, devices, current, playing, tk_img, escaped,
           mout, clicks>>
vars == <<hvars, pvars, mvars>>

\* ------------------------------------------------------------------ bounds
\* files in the history folder
MaxFiles == 2
\* records in one export list
MaxRecs == 1
\* directory entries in the photo folder
MaxPhotos == 3
\* items in one week bucket at the start of the interactive phase
MaxBucket == 2
\* input events (space / click) delivered to the main loop
MaxClicks == 2

\* ------------------------------------------------------------------ values
\* Python None and present optional values: None is <<>>, a value v is <<v>>.
None == <<>>
Some(v) == <<v>>
\* Python truthiness of an optional string: None and '' are false.
Truthy(x) == x # None /\ x # Some("")
\* Python `a or b`.
PyOr(a, b) == IF Truthy(a) THEN a ELSE b

SONG_START_MS == 30000

\* ------------------------------------------------------------------ dates
\* datetime.date arithmetic as CPython's datetime module does it.
is_leap(y) == (y % 4 = 0) /\ ((y % 100 # 0) \/ (y % 400 = 0))
days_before_year(y) ==
    LET p == y - 1 IN p * 365 + (p \div 4) - (p \div 100) + (p \div 400)
DaysBeforeMonthTable == <<0, 31, 59, 90, 120, 151, 181, 212, 243, 273, 304, 334>>
days_before_month(y, m) ==
    DaysBeforeMonthTable[m] + (IF m > 2 /\ is_leap(y) THEN 1 ELSE 0)
ymd2ord(d) == days_before_year(d[1]) + days_before_month(d[1], d[2]) + d[3]
isoweek1monday(y) ==
    LET firstday == ymd2ord(<<y, 1, 1>>)
        firstweekday == (firstday + 6) % 7
        week1monday == firstday - firstweekday
    IN IF firstweekday > 3 THEN week1monday + 7 ELSE week1monday
\* date.isocalendar(): <<ISO year, ISO week, ISO weekday>>
isocalendar(d) ==
    LET today == ymd2ord(d)
        off == today - isoweek1monday(d[1])
    IN IF off < 0
         THEN LET o2 == today - isoweek1monday(d[1] - 1)
              IN <<d[1] - 1, (o2 \div 7) + 1, (o2 % 7) + 1>>
         ELSE IF (off \div 7) >= 52 /\ today >= isoweek1monday(d[1] + 1)
                THEN <<d[1] + 1, 1, (off % 7) + 1>>
                ELSE <<d[1], (off \div 7) + 1, (off % 7) + 1>>

\* get_year_week(dt)
get_year_week(t) == LET c == isocalendar(t.date) IN <<c[1], c[2]>>

\* The calendar dates the inputs carry.
DateW10 == <<2024, 3, 4>>     \* Monday of ISO week 10 of 2024
DateW11 == <<2024, 3, 11>>    \* Monday of ISO week 11 of 2024
DateW53 == <<2021, 1, 1>>     \* a Friday, ISO week 53 of 2020
Week10 == <<2024, 10>>
Week11 == <<2024, 11>>
Week53 == <<2020, 53>>

\* A datetime: its calendar date and whether it carries a UTC offset.
Datetime(d, aware) == [date |-> d, aware |-> aware, bound |-> TRUE]
\* The local `dt` before any assignment.
Unbound == [date |-> <<>>, aware |-> FALSE, bound |-> FALSE]

\* ------------------------------------------------------------------ export files
\* A parsed JSON value. A dict carries, for each name of possible_list_keys in
\* order, the value it holds under that name (type "absent" when it has none).
JList(items) == [type |-> "list", items |-> items, fields |-> <<>>]
JScalar == [type |-> "scalar", items |-> <<>>, fields |-> <<>>]
JAbsent == [type |-> "absent", items |-> <<>>, fields |-> <<>>]
JDict(fields) == [type |-> "dict", items |-> <<>>, fields |-> fields]

\* possible_list_keys (line 32)
possible_list_keys == <<"streaming_history", "playback", "plays">>

\* The raw value under 'ts': written "2024-03-04T10:00:00Z" (form strict), written
\* with an explicit offset, "2024-03-11T10:00:00+01:00" (form offset), any other
\* text (form garbage), or no 'ts' key at all (form absent).
Ts(form, d) == [form |-> form, date |-> d]
NoTs == Ts("absent", <<>>)
GarbageTs == Ts("garbage", <<>>)

Entry(ts, track, artist, episode, show, ms, uri) ==
    [ts |-> ts, master_metadata_track_name |-> track,
     master_metadata_album_artist_name |-> artist, episode_name |-> episode,
     episode_show_name |-> show, ms_played |-> ms, spotify_track_uri |-> uri]

\* a song, strict timestamp, week 10
EntryA == Entry(Ts("strict", DateW10), Some("SongA"), Some("ArtistA"), None, None,
                Some(1000), Some("spotify:track:A"))
\* a podcast episode without show name or uri, offset timestamp, week 11
EntryB == Entry(Ts("offset", DateW11), None, None, Some("EpisodeB"), None,
                None, None)
\* a record whose timestamp no parser accepts
EntryG == Entry(GarbageTs, Some("SongG"), Some("ArtistG"), None, None,
                Some(2000), Some("spotify:track:G"))
\* a record without 'ts'
EntryN == Entry(NoTs, Some("SongN"), Some("ArtistN"), None, None,
                Some(3000), Some("spotify:track:N"))
EntrySet == {EntryA, EntryB, EntryG, EntryN}

\* sequences over S of length at most n
SeqUpTo(S, n) == UNION {[1..k -> S] : k \in 0..n}

\* a song without artist, strict timestamp, 1 January 2021 (ISO week 53 of 2020)
EntryC == Entry(Ts("strict", DateW53), Some("SongC"), None, None, None,
                Some(4000), Some("spotify:track:C"))
\* The list a dict holds under its i-th possible key, when it holds a list there:
\* a different one under each key, so that the key taken shows in the result.
KeyList == <<JList(<<EntryA>>), JList(<<EntryB>>), JList(<<EntryC>>)>>
\* A dict: under each possible key nothing, a non-list, or that key's list.
DictSet == {JDict(f) : f \in {g \in [1..3 -> {JAbsent, JScalar} \cup {KeyList[i] : i \in 1..3}] :
                                \A i \in 1..3 : g[i].type = "list" => g[i] = KeyList[i]}}
\* A file: text that json.load rejects, or the value json.load returns.
Malformed == [valid |-> FALSE, value |-> JAbsent]
WellFormed(v) == [valid |-> TRUE, value |-> v]
FileSet ==
    {Malformed, WellFormed(JScalar)}
    \cup {WellFormed(JList(l)) : l \in SeqUpTo(EntrySet, MaxRecs)}
    \cup {WellFormed(d) : d \in DictSet}
DirSet == SeqUpTo(FileSet, MaxFiles)

\* ------------------------------------------------------------------ load_spotify_history
\* datetime.strptime(ts, '%Y-%m-%dT%H:%M:%SZ'): a naive datetime, or ValueError
strptime_Z(ts) ==
    IF ts.form = "strict" THEN [ok |-> TRUE, value |-> Datetime(ts.date, FALSE)]
                          ELSE [ok |-> FALSE, value |-> Unbound]
\* datetime.fromisoformat(ts.replace('Z', '+00:00')): an aware datetime, or an exception
fromisoformat_Z(ts) ==
    IF ts.form \in {"strict", "offset"}
      THEN [ok |-> TRUE, value |-> Datetime(ts.date, TRUE)]
      ELSE [ok |-> FALSE, value |-> Unbound]

\* Lines 45-51: the value of `dt` after the nested try blocks, given its value before.
\* When both parsers fail the handler only prints, and `dt` keeps what it had.
resolve_dt(prev, ts) ==
    IF strptime_Z(ts).ok THEN strptime_Z(ts).value
    ELSE IF fromisoformat_Z(ts).ok THEN fromisoformat_Z(ts).value
    ELSE prev
\* Lines 47-51: whether the inner handler prints 'Failed to parse timestamp'.
parse_failed(ts) == ~strptime_Z(ts).ok /\ ~fromisoformat_Z(ts).ok

\* Lines 55-68: the event built from an entry and the current `dt`.
make_event(entry, t) ==
    LET track_name == entry.master_metadata_track_name
        artist_name == entry.master_metadata_album_artist_name
        fallback == track_name = None \/ artist_name = None
    IN [artist |-> IF fallback
                     THEN PyOr(PyOr(artist_name, entry.episode_show_name), Some("Unknown Artist"))
                     ELSE artist_name,
        track |-> IF fallback
                    THEN PyOr(PyOr(track_name, entry.episode_name), Some("Unknown Track"))
                    ELSE track_name,
        timestamp |-> t,
        ms_played |-> entry.ms_played,
        uri |-> entry.spotify_track_uri]

\* d.setdefault(key, []).append(item) (lines 62, 93)
setdefault_append(d, key, item) ==
    IF key \in DOMAIN d THEN [d EXCEPT ![key] = Append(@, item)]
                        ELSE [k \in DOMAIN d \cup {key} |-> IF k = key THEN <<item>> ELSE d[k]]

\* Lines 31-36: `data` after the dict branch.
RECURSIVE first_list_from(_, _)
first_list_from(fields, i) ==
    IF i > Len(possible_list_keys) THEN JAbsent
    ELSE IF fields[i].type = "list" THEN fields[i]
    ELSE first_list_from(fields, i + 1)
\* Mutant of select_records: the loop of line 33 without its break, so the last
\* possible key holding a list wins.
RECURSIVE last_list_from(_, _)
last_list_from(fields, i) ==
    IF i < 1 THEN JAbsent
    ELSE IF fields[i].type = "list" THEN fields[i]
    ELSE last_list_from(fields, i - 1)
select_records_last_wins(d) ==
    IF d.type = "dict" /\ last_list_from(d.fields, Len(possible_list_keys)).type = "list"
      THEN last_list_from(d.fields, Len(possible_list_keys))
      ELSE d
select_records(d) ==
    IF d.type = "dict" /\ first_list_from(d.fields, 1).type = "list"
      THEN first_list_from(d.fields, 1)
      ELSE d

Msg(text, n) == [text |-> text, file |-> n]

HIdle ==
    /\ spotify_dir = <<>> /\ file_i = 0 /\ data = JAbsent /\ entry_i = 0
    /\ dt = Unbound /\ tracks_by_week = <<>> /\ hpc = "idle" /\ hout = <<>>
PIdle ==
    /\ photo_dir = <<>> /\ photo_i = 0 /\ photos_by_week = <<>> /\ ppc = "idle"
MIdle ==
    /\ tracks = <<>> /\ photos = <<>> /\ pc = "idle" /\ caller = "none"
    /\ sample = <<>> /\ devices = "unset" /\ current = <<>> /\ playing = <<>> /\ tk_img = None
    /\ escaped = "none" /\ mout = <<>> /\ clicks = 0

\* load_spotify_history(folder) is entered: line 21.
InitHistory ==
    /\ spotify_dir \in DirSet
    /\ file_i = 0 /\ data = JAbsent /\ entry_i = 0
    /\ dt = Unbound /\ tracks_by_week = <<>> /\ hpc = "files" /\ hout = <<>>
    /\ PIdle /\ MIdle

\* Lines 23-29: the for loop takes the next file and json.load reads it.
OpenFile ==
    /\ hpc = "files" /\ file_i < Len(spotify_dir)
    /\ file_i' = file_i + 1
    /\ LET f == spotify_dir[file_i + 1] IN
         IF f.valid
           THEN /\ data' = f.value /\ hpc' = "shape" /\ hout' = hout
           ELSE /\ hout' = Append(hout, Msg("Skipping invalid JSON file", file_i + 1))
                /\ UNCHANGED <<data, hpc>>
    /\ UNCHANGED <<spotify_dir, entry_i, dt, tracks_by_week, pvars, mvars>>

\* Lines 31-40: pick the record list out of a dict, skip a file that yields no list.
SelectRecords ==
    /\ hpc = "shape"
    /\ data' = select_records(data)
    /\ IF data'.type = "list"
         THEN /\ hpc' = "entries" /\ entry_i' = 0 /\ hout' = hout
         ELSE /\ hpc' = "files" /\ entry_i' = entry_i
              /\ hout' = Append(hout, Msg("Skipping unexpected format in file", file_i))
    /\ UNCHANGED <<spotify_dir, file_i, dt, tracks_by_week, pvars, mvars>>

\* Lines 42-68: one iteration of the entry loop.
ProcessEntry ==
    /\ hpc = "entries" /\ entry_i < Len(data.items)
    /\ entry_i' = entry_i + 1
    /\ LET entry == data.items[entry_i + 1] IN
         IF entry.ts.form = "absent"
           THEN UNCHANGED <<dt, tracks_by_week, hpc, hout>>
           ELSE /\ dt' = resolve_dt(dt, entry.ts)
                /\ IF dt'.bound
                     THEN /\ tracks_by_week' =
                               setdefault_append(tracks_by_week, get_year_week(dt'),
                                                 make_event(entry, dt'))
                          /\ hpc' = hpc
                          /\ hout' = IF parse_failed(entry.ts)
                                       THEN Append(hout, Msg("Failed to parse timestamp", file_i))
                                       ELSE hout
                     ELSE \* line 53 reads `dt` before any assignment
                          /\ hpc' = "raised"
                          /\ hout' = hout \o <<Msg("Failed to parse timestamp", file_i),
                                               Msg("UnboundLocalError", file_i)>>
                          /\ UNCHANGED tracks_by_week
    /\ UNCHANGED <<spotify_dir, file_i, data, pvars, mvars>>

\* Line 42: the entry loop is exhausted, back to the file loop.
EndOfFile ==
    /\ hpc = "entries" /\ entry_i = Len(data.items)
    /\ hpc' = "files"
    /\ UNCHANGED <<spotify_dir, file_i, data, entry_i, dt, tracks_by_week, hout, pvars, mvars>>

\* Line 70: the file loop is exhausted, return tracks_by_week.
ReturnHistory ==
    /\ hpc = "files" /\ file_i = Len(spotify_dir)
    /\ hpc' = "returned"
    /\ UNCHANGED <<spotify_dir, file_i, data, entry_i, dt, tracks_by_week, hout, pvars, mvars>>

NextHistory == OpenFile \/ SelectRecords \/ ProcessEntry \/ EndOfFile \/ ReturnHistory
SpecHistory == InitHistory /\ [][NextHistory]_vars

\* ------------------------------------------------------------------ claims on load_spotify_history
\* The entry the loop of line 42 takes next.
NextEntry == data.items[entry_i + 1]
AtEntry == hpc = "entries" /\ entry_i < Len(data.items)
\* The next entry has a 'ts' that neither parser accepts.
AtBadTs == AtEntry /\ NextEntry.ts.form # "absent" /\ parse_failed(NextEntry.ts)

\* C1 (as claimed): a record whose 'ts' fails both the strict and the lenient parse
\* is skipped: processing it leaves the week buckets exactly as they were and does
\* not abort ingestion, wherever the record sits in the run.
C1_BadTsSkipped ==
    [][AtBadTs => (tracks_by_week' = tracks_by_week /\ hpc' # "raised")]_vars

\* The events the claims attribute to a file: one per record with a timestamp a
\* parser accepts, stamped with that record's own timestamp, in file order.
RECURSIVE EventsOfRecords(_)
EventsOfRecords(items) ==
    IF items = <<>> THEN <<>>
    ELSE LET e == Head(items) IN
         (IF e.ts.form # "absent" /\ ~parse_failed(e.ts)
            THEN <<make_event(e, resolve_dt(Unbound, e.ts))>> ELSE <<>>)
         \o EventsOfRecords(Tail(items))
EventsOfFile(f) ==
    IF f.valid /\ select_records(f.value).type = "list"
      THEN EventsOfRecords(select_records(f.value).items) ELSE <<>>
RECURSIVE BucketAll(_, _)
BucketAll(d, events) ==
    IF events = <<>> THEN d
    ELSE BucketAll(setdefault_append(d, get_year_week(Head(events).timestamp), Head(events)),
                   Tail(events))
RECURSIVE BucketsOfFiles(_, _)
BucketsOfFiles(d, files) ==
    IF files = <<>> THEN d
    ELSE BucketsOfFiles(BucketAll(d, EventsOfFile(Head(files))), Tail(files))

\* C3 (as claimed): whatever mix of well-formed and malformed files the folder
\* holds, in whatever order, load_spotify_history never raises, and when it
\* returns the buckets hold exactly the events of the well-formed files (a
\* malformed file contributes nothing, a well-formed file after it is ingested).
C3_OnlyValidFilesIngested ==
    /\ hpc # "raised"
    /\ hpc = "returned" => tracks_by_week = BucketsOfFiles(<<>>, spotify_dir)

\* The file the loop of line 23 is working on, as json.load returned it.
CurrentValue == spotify_dir[file_i].value
\* The least possible key under which the dict v holds a list (0: none does).
FirstListKey(v) ==
    IF \E i \in 1..3 : v.fields[i].type = "list"
      THEN CHOOSE i \in 1..3 : /\ v.fields[i].type = "list"
                                /\ \A j \in 1..(i - 1) : v.fields[j].type # "list"
      ELSE 0
Supported(v) == v.type = "list" \/ (v.type = "dict" /\ FirstListKey(v) # 0)

\* C10: the records of a file are the top-level value when it is a list, and for
\* a dict the list under the first of 'streaming_history', 'playback', 'plays'
\* that holds one (an earlier name wins over a later one); a file of any other
\* shape is skipped with a diagnostic, adds no event, and the file loop goes on:
\* the function returns only once every file of the folder was taken.
C10_ShapeSelection ==
    /\ [][hpc = "shape" =>
            IF CurrentValue.type = "list"
              THEN hpc' = "entries" /\ data' = CurrentValue /\ entry_i' = 0
            ELSE IF Supported(CurrentValue)
              THEN /\ hpc' = "entries" /\ entry_i' = 0
                   /\ data' = CurrentValue.fields[FirstListKey(CurrentValue)]
            ELSE /\ hpc' = "files" /\ file_i' = file_i
                 /\ tracks_by_week' = tracks_by_week
                 /\ hout' = Append(hout, Msg("Skipping unexpected format in file", file_i))]_vars
    /\ [](hpc = "returned" => file_i = Len(spotify_dir))
    /\ [](hpc = "entries" => data.type = "list" /\ Supported(CurrentValue))

\* A second file, a dict holding a list under both 'streaming_history' and
\* 'playback', has had its 'streaming_history' record ingested after a first file
\* of unsupported shape was skipped.
C10_Witness ==
    /\ hpc = "entries" /\ file_i = 2 /\ entry_i = 1
    /\ CurrentValue.type = "dict"
    /\ CurrentValue.fields[1].type = "list" /\ CurrentValue.fields[2].type = "list"
    /\ data = CurrentValue.fields[1]
    /\ hout = <<Msg("Skipping unexpected format in file", 1)>>
    /\ DOMAIN tracks_by_week = {Week10}

\* ------------------------------------------------------------------ load_photos
\* A directory entry of the photo folder: its path, whether its name matches the
\* pattern '*.*', its Path.suffix, what exifread finds in it, and the calendar
\* date of its modification time.
\*   exif.tag  "valid"        an 'EXIF DateTimeOriginal' tag reading exif.date
\*             "absent"       no such tag
\*             "unparseable"  a tag that '%Y:%m:%d %H:%M:%S' does not match
\*             "unreadable"   open or exifread.process_file raises
DirEntry(path, dotted, suffix, tag, d, mtime) ==
    [path |-> path, dotted |-> dotted, suffix |-> suffix,
     exif |-> [tag |-> tag, date |-> d], mtime |-> mtime]
PhotoX == DirEntry("photoX.jpg", TRUE, ".jpg", "valid", DateW10, DateW11)
PhotoY == DirEntry("photoY.JPG", TRUE, ".JPG", "absent", <<>>, DateW11)
PhotoZ == DirEntry("photoZ.jpeg", TRUE, ".jpeg", "unparseable", <<>>, DateW53)
PhotoU == DirEntry("photoU.Jpeg", TRUE, ".Jpeg", "unreadable", <<>>, DateW10)
ShotPng == DirEntry("shot.png", TRUE, ".png", "valid", DateW10, DateW10)
Readme == DirEntry("README", FALSE, "", "absent", <<>>, DateW11)
DirEntrySet == {PhotoX, PhotoY, PhotoZ, PhotoU, ShotPng, Readme}
\* A folder lists each of its entries once, in the order the glob yields them.
PhotoDirSet ==
    {d \in SeqUpTo(DirEntrySet, MaxPhotos) :
        \A i, j \in 1..Len(d) : i # j => d[i].path # d[j].path}

\* str.lower() on the suffixes above
Lower(sfx) ==
    CASE sfx = ".JPG" -> ".jpg"
      [] sfx = ".Jpeg" -> ".jpeg"
      [] OTHER -> sfx

\* Path(folder).glob('*.*') (line 88)
MatchesStarDotStar(e) == e.dotted
glob_star_dot_star(d) == SelectSeq(d, MatchesStarDotStar)

\* Mutant of is_image: line 89 without .lower()
is_image_case_sensitive(e) == e.suffix \in {".jpg", ".jpeg"}
\* Line 89: the suffix test (negated in the code, which skips the others)
is_image(e) == Lower(e.suffix) \in {".jpg", ".jpeg"}

\* get_photo_date(path), lines 72-84
get_photo_date(e) ==
    IF e.exif.tag = "valid"
      THEN Datetime(e.exif.date, FALSE)      \* line 79 returns
      ELSE Datetime(e.mtime, FALSE)          \* lines 80-84: exception swallowed, or no tag

\* load_photos(folder) is entered: line 87.
InitPhotos ==
    /\ photo_dir \in PhotoDirSet
    /\ photo_i = 0 /\ photos_by_week = <<>> /\ ppc = "files"
    /\ HIdle /\ MIdle

\* Lines 88-93: one iteration of the loop over the glob.
TakePhoto ==
    /\ ppc = "files" /\ photo_i < Len(glob_star_dot_star(photo_dir))
    /\ photo_i' = photo_i + 1
    /\ LET imgfile == glob_star_dot_star(photo_dir)[photo_i + 1] IN
         IF ~is_image(imgfile)
           THEN photos_by_week' = photos_by_week
           ELSE photos_by_week' =
                  setdefault_append(photos_by_week, get_year_week(get_photo_date(imgfile)),
                                    imgfile.path)
    /\ UNCHANGED <<photo_dir, ppc, hvars, mvars>>

\* Line 95: the glob is exhausted, return photos_by_week.
ReturnPhotos ==
    /\ ppc = "files" /\ photo_i = Len(glob_star_dot_star(photo_dir))
    /\ ppc' = "returned"
    /\ UNCHANGED <<photo_dir, photo_i, photos_by_week, hvars, mvars>>

NextPhotos == TakePhoto \/ ReturnPhotos
SpecPhotos == InitPhotos /\ [][NextPhotos]_vars

\* ------------------------------------------------------------------ claims on load_photos
\* The ISO-8601 week of the calendar dates the inputs carry, from the calendar:
\* 4 and 11 March 2024 are the Mondays of weeks 10 and 11; 1 January 2021 is the
\* Friday of week 53 of 2020.
IsoWeekOf(d) ==
    CASE d = DateW10 -> Week10
      [] d = DateW11 -> Week11
      [] d = DateW53 -> Week53
\* The spellings of the two image extensions among the folder entries.
ImageSuffixes == {".jpg", ".JPG", ".jpeg", ".Jpeg"}
DirEntries == {photo_dir[i] : i \in 1..Len(photo_dir)}
ImageFiles == {e \in DirEntries : e.suffix \in ImageSuffixes}
\* How often a path occurs in a bucket, and over all buckets.
OccurrencesIn(bucket, path) == Cardinality({i \in 1..Len(bucket) : bucket[i] = path})
RECURSIVE SumOver(_, _)
SumOver(f, S) ==
    IF S = {} THEN 0 ELSE LET x == CHOOSE y \in S : TRUE IN f[x] + SumOver(f, S \ {x})
Occurrences(path) ==
    SumOver([w \in DOMAIN photos_by_week |-> OccurrencesIn(photos_by_week[w], path)],
            DOMAIN photos_by_week)
TotalEntries ==
    SumOver([w \in DOMAIN photos_by_week |-> Len(photos_by_week[w])], DOMAIN photos_by_week)

\* C6: when load_photos returns, every .jpg/.jpeg file of the folder (in any
\* letter case) sits in exactly one week bucket, exactly once, whether or not
\* it has a usable capture-time tag; the buckets hold as many entries as there
\* are image files; a file without a usable tag is in the bucket of the ISO week
\* of its modification time (one with a tag, in that of the tag's date); a file
\* with another extension is in no bucket.
C6_EveryPhotoBucketedOnce ==
    ppc = "returned" =>
        /\ TotalEntries = Cardinality(ImageFiles)
        /\ \A e \in ImageFiles :
              /\ Occurrences(e.path) = 1
              /\ LET w == IF e.exif.tag = "valid" THEN IsoWeekOf(e.exif.date)
                                                 ELSE IsoWeekOf(e.mtime)
                 IN w \in DOMAIN photos_by_week /\ OccurrencesIn(photos_by_week[w], e.path) = 1
        /\ \A e \in DirEntries \ ImageFiles : Occurrences(e.path) = 0
        /\ \A w \in DOMAIN photos_by_week : photos_by_week[w] # <<>>

\* A folder with a tagless upper-case .JPG, a .jpeg whose tag does not parse and
\* a .png has been ingested: the two images sit in the weeks of their
\* modification times, the .png nowhere.
C6_Witness ==
    /\ ppc = "returned"
    /\ DirEntries = {PhotoY, PhotoZ, ShotPng}
    /\ DOMAIN photos_by_week = {Week11, Week53}
    /\ photos_by_week[Week11] = <<"photoY.JPG">>
    /\ photos_by_week[Week53] = <<"photoZ.jpeg">>

\* ------------------------------------------------------------------ MemoryMachine
\* The bucket collections the interactive phase starts from: whatever the two
\* loaders can return over the two weeks below. A history bucket is a non-empty
\* list of events filed under the week of their timestamp; a photo bucket is a
\* non-empty list of paths, and no path is listed twice.
EntryD == Entry(Ts("strict", DateW10), Some("SongD"), Some("ArtistD"), None, None,
                Some(5000), Some("spotify:track:D"))
EventA == make_event(EntryA, resolve_dt(Unbound, EntryA.ts))
EventB == make_event(EntryB, resolve_dt(Unbound, EntryB.ts))
EventD == make_event(EntryD, resolve_dt(Unbound, EntryD.ts))
EventSet == {EventA, EventB, EventD}
PathSet == {"photoX.jpg", "photoY.JPG"}
MachineWeeks == {Week10, Week11}
TracksSet ==
    UNION {{t \in [K -> SeqUpTo(EventSet, MaxBucket)] :
               \A w \in K : /\ t[w] # <<>>
                            /\ \A i \in 1..Len(t[w]) : get_year_week(t[w][i].timestamp) = w}
           : K \in SUBSET MachineWeeks}
PhotosSet ==
    UNION {{p \in [K -> SeqUpTo(PathSet, MaxBucket)] :
               /\ \A w \in K : p[w] # <<>>
               /\ \A w, v \in K : \A i \in 1..Len(p[w]) : \A j \in 1..Len(p[v]) :
                     (w # v \/ i # j) => p[w][i] # p[v][j]}
           : K \in SUBSET MachineWeeks}

\* list(S) for a set S: its elements, each once, in some order.
list_of_set(S) == CHOOSE q \in [1..Cardinality(S) -> S] : \A x \in S : \E i \in DOMAIN q : q[i] = x

\* Mutant of common_weeks: the week list built from the pool of events, one entry
\* per event, so that a week with more events is drawn more often.
RECURSIVE weeks_per_event(_, _, _)
weeks_per_event(t, p, ws) ==
    IF ws = <<>> THEN <<>>
    ELSE (IF Head(ws) \in DOMAIN p THEN [i \in 1..Len(t[Head(ws)]) |-> Head(ws)] ELSE <<>>)
         \o weeks_per_event(t, p, Tail(ws))
common_weeks_by_item(t, p) == weeks_per_event(t, p, list_of_set(DOMAIN t))
\* Mutant of common_weeks: every week that has photos, `&` forgotten.
common_weeks_photos_only(t, p) == list_of_set(DOMAIN p)
\* Line 180: common_weeks = list(set(tracks.keys()) & set(photos.keys()))
common_weeks(t, p) == list_of_set(DOMAIN t \cap DOMAIN p)

\* Mutant of random_choice: the element is taken out of the list (list.pop).
random_choice_pop(seq, i) ==
    [value |-> seq[i], seq |-> [j \in 1..(Len(seq) - 1) |-> IF j < i THEN seq[j] ELSE seq[j + 1]]]
\* random.choice(seq) when the generator selects position i (each position of
\* 1..Len(seq) is selected with the same probability): the element returned, and
\* the list afterwards.
random_choice(seq, i) == [value |-> seq[i], seq |-> seq]

\* MemoryMachine() is entered with the two globals set (lines 190-193); the
\* constructor stands before its own call of next_item (line 123).
InitMachine ==
    /\ tracks \in TracksSet /\ photos \in PhotosSet
    /\ pc = "init" /\ caller = "none"
    /\ sample = <<>> /\ devices = "unset" /\ current = <<>> /\ playing = <<>> /\ tk_img = None
    /\ escaped = "none" /\ mout = <<>> /\ clicks = 0
    /\ HIdle /\ PIdle

\* An exception leaves next_item, which catches nothing. Raised under the
\* constructor's call (line 123) it ends the program before the main loop starts;
\* raised under a Tk binding, Tk reports the traceback and the main loop goes on.
Raise(exc) ==
    /\ escaped' = exc
    /\ pc' = IF caller = "__init__" THEN "exited" ELSE "mainloop"
    /\ sample' = <<>> /\ devices' = "unset"

\* Line 123: the constructor calls self.next_item().
CallFromInit ==
    /\ pc = "init"
    /\ pc' = "next_item" /\ caller' = "__init__" /\ escaped' = "none" /\ mout' = <<>>
    /\ UNCHANGED <<tracks, photos, sample, devices, current, playing, tk_img, clicks, hvars, pvars>>

\* Lines 113-114, 125: the main loop dispatches <space> or <Button-1> to next_item.
InputEvent ==
    /\ pc = "mainloop" /\ clicks < MaxClicks
    /\ clicks' = clicks + 1
    /\ pc' = "next_item" /\ caller' = "mainloop" /\ escaped' = "none" /\ mout' = <<>>
    /\ UNCHANGED <<tracks, photos, sample, devices, current, playing, tk_img, hvars, pvars>>

\* Lines 129-132 with get_random_photo_and_song, lines 179-184.
Sample ==
    /\ pc = "next_item"
    /\ LET cw == common_weeks(tracks, photos) IN
         IF cw = <<>>
           THEN \* random.choice of an empty list
                /\ Raise("IndexError")
                /\ UNCHANGED <<tracks, photos, current>>
           ELSE \E wi \in DOMAIN cw :
                  LET week == cw[wi] IN
                    IF week \notin DOMAIN tracks \/ week \notin DOMAIN photos
                      THEN /\ Raise("KeyError")
                           /\ UNCHANGED <<tracks, photos, current>>
                    ELSE IF tracks[week] = <<>> \/ photos[week] = <<>>
                      THEN /\ Raise("IndexError")
                           /\ UNCHANGED <<tracks, photos, current>>
                    ELSE \E ti \in DOMAIN tracks[week], pi \in DOMAIN photos[week] :
                           LET tc == random_choice(tracks[week], ti)
                               pch == random_choice(photos[week], pi)
                               got == [track |-> tc.value, photo |-> pch.value, week |-> week]
                           IN /\ tracks' = [tracks EXCEPT ![week] = tc.seq]
                              /\ photos' = [photos EXCEPT ![week] = pch.seq]
                              /\ sample' = got
                              /\ current' = got
                              /\ pc' = "play_audio"
                              /\ UNCHANGED <<devices, escaped>>
    /\ UNCHANGED <<caller, playing, tk_img, mout, clicks, hvars, pvars>>

\* Line 166: devices = self.sp.devices(), a network call that returns None, a
\* listing without devices, a listing with a device, or raises.
CallDevices ==
    /\ pc = "play_audio"
    /\ \/ \E r \in {"None", "empty", "listed"} :
            /\ devices' = r /\ pc' = "devices_known"
            /\ UNCHANGED <<sample, escaped>>
       \/ Raise("SpotifyException")
    /\ UNCHANGED <<tracks, photos, caller, current, playing, tk_img, mout, clicks, hvars, pvars>>

NoDeviceMessage == "No active Spotify devices."
\* Mutant of no_device: only `not devices`, the empty listing not tested.
no_device_none_only(d) == d = "None"
\* Line 167: not devices or not devices['devices']
no_device(d) == d = "None" \/ d = "empty"

\* Lines 167-177: without a device print and return; otherwise start playback of
\* the sampled uri on the first device, which the collaborator accepts or refuses
\* (it refuses a uri of None).
PlayOrSkip ==
    /\ pc = "devices_known"
    /\ IF no_device(devices)
         THEN /\ mout' = Append(mout, NoDeviceMessage)
              /\ pc' = "show_image" /\ devices' = "unset"
              /\ UNCHANGED <<playing, sample, escaped>>
         ELSE IF devices # "listed"
           THEN \* devices['devices'][0] of a value without a first device
                /\ Raise("LookupError")
                /\ UNCHANGED <<playing, mout>>
         ELSE \/ /\ sample.track.uri # None
                 /\ playing' = [uri |-> sample.track.uri, position_ms |-> SONG_START_MS]
                 /\ pc' = "show_image" /\ devices' = "unset"
                 /\ UNCHANGED <<mout, sample, escaped>>
              \/ /\ Raise("SpotifyException")
                 /\ UNCHANGED <<playing, mout>>
    /\ UNCHANGED <<tracks, photos, caller, current, tk_img, clicks, hvars, pvars>>

\* Lines 134-163: show_image(photo) opens, scales and labels the picture and hands
\* it to the label, or raises on the way (unreadable image, missing font).
\* next_item then returns: to the constructor, which enters the main loop (line
\* 125), or to the main loop.
ShowImage ==
    /\ pc = "show_image"
    /\ \/ /\ tk_img' = Some(sample.photo)
          /\ pc' = "mainloop" /\ sample' = <<>>
          /\ UNCHANGED <<escaped, devices>>
       \/ /\ Raise("OSError")
          /\ UNCHANGED tk_img
    /\ UNCHANGED <<tracks, photos, caller, current, playing, mout, clicks, hvars, pvars>>

NextMachine == CallFromInit \/ InputEvent \/ Sample \/ CallDevices \/ PlayOrSkip \/ ShowImage
SpecMachine == InitMachine /\ [][NextMachine]_vars

\* ------------------------------------------------------------------ claims on the interactive phase
\* The weeks present in both bucket collections.
Common == DOMAIN tracks \cap DOMAIN photos
Elements(seq) == {seq[i] : i \in 1..Len(seq)}

\* C2 (as claimed): with no common week a sampling attempt fails with the
\* dedicated NoOverlap condition, yields no sample and leaves both bucket
\* collections unchanged.
C2_NoOverlapCondition ==
    [][(pc = "next_item" /\ Common = {}) =>
          (/\ escaped' = "NoOverlap"
           /\ sample' = <<>> /\ current' = current
           /\ tracks' = tracks /\ photos' = photos)]_vars

\* C4 (as claimed): a failure of the playback collaborator (sp.devices() or
\* sp.start_playback() raising) stays inside next_item: nothing propagates out of
\* it, the program goes on accepting input, the buckets are unchanged.
C4_PlaybackFailureContained ==
    [][(pc \in {"play_audio", "devices_known"}) =>
          (/\ escaped' = "none"
           /\ pc' # "exited"
           /\ tracks' = tracks /\ photos' = photos)]_vars

\* The concrete scenario of C5.
ScenarioTracks == [w \in {Week10} |-> <<EventA>>]
ScenarioPhotos == [w \in {Week10, Week11} |-> IF w = Week10 THEN <<"photoX.jpg">> ELSE <<"photoY.JPG">>]

\* C5: with a common week, a call of get_random_photo_and_song returns (it does
\* not raise) a triple whose week is a key of both collections, whose event is
\* in the history bucket of that week and whose photo is in the photo bucket of
\* that week; with history {(2024,10): [eventA]} and photos {(2024,10): [photoX],
\* (2024,11): [photoY]} the triple is (eventA, photoX, (2024,10)).
C5_SampleFromCommonWeek ==
    [][(pc = "next_item" /\ Common # {}) =>
          (/\ pc' = "play_audio" /\ escaped' = "none"
           /\ sample'.week \in Common
           /\ sample'.track \in Elements(tracks[sample'.week])
           /\ sample'.photo \in Elements(photos[sample'.week])
           /\ (tracks = ScenarioTracks /\ photos = ScenarioPhotos) =>
                 sample' = [track |-> EventA, photo |-> "photoX.jpg", week |-> Week10])]_vars

\* The scenario's sample has been drawn, on a call made from the main loop.
C5_Witness ==
    /\ pc = "play_audio" /\ clicks = 1
    /\ tracks = ScenarioTracks /\ photos = ScenarioPhotos
    /\ sample = [track |-> EventA, photo |-> "photoX.jpg", week |-> Week10]

\* C7: no step of the interactive phase changes either bucket collection, so
\* both keep the keys and the ordered contents they had when ingestion returned.
C7_BucketsReadOnly ==
    [][tracks' = tracks /\ photos' = photos]_vars

\* Three invocations are over (the constructor's and two from the main loop);
\* playback was started and a photo shown in one, and the last one failed.
C7_Witness ==
    /\ pc = "mainloop" /\ clicks = 2
    /\ Common # {}
    /\ playing # <<>> /\ tk_img # None /\ escaped # "none"

\* C8: the draw is two-stage and unweighted. The week is drawn from a list in
\* which every common week stands exactly once and no other week stands at all,
\* so with random.choice selecting each position of its list equally often
\* every common week has the same chance whatever the size of its buckets; and
\* for every common week, every position of its history bucket and every
\* position of its photo bucket, the call can return exactly that triple.
C8_TwoStageUnweighted ==
    (pc = "next_item" /\ Common # {}) =>
        LET cw == common_weeks(tracks, photos) IN
          /\ \A w \in Common : Cardinality({i \in DOMAIN cw : cw[i] = w}) = 1
          /\ \A i \in DOMAIN cw : cw[i] \in Common
          /\ \A w \in Common : \A ti \in DOMAIN tracks[w] : \A pi \in DOMAIN photos[w] :
                ENABLED (Sample /\ sample' = [track |-> tracks[w][ti],
                                               photo |-> photos[w][pi], week |-> w])

\* Both weeks are common, week 10 holds two events and week 11 a single one, and
\* the draw came out as week 11.
C8_Witness ==
    /\ pc = "play_audio"
    /\ Common = {Week10, Week11}
    /\ Len(tracks[Week10]) = 2 /\ Len(tracks[Week11]) = 1
    /\ sample.week = Week11

\* C9: when sp.devices() returns nothing or a listing without devices,
\* play_audio prints its message, starts no playback and does not raise; the
\* sample stays recorded in current_track, current_photo and current_week, and
\* next_item goes on to show_image, which shows the sampled photo unless the
\* imaging itself raises.
C9_NoDeviceStillShows ==
    /\ [][(pc = "devices_known" /\ devices \in {"None", "empty"}) =>
             (/\ pc' = "show_image" /\ escaped' = "none"
              /\ playing' = playing
              /\ mout' = Append(mout, NoDeviceMessage)
              /\ sample' = sample /\ current' = sample)]_vars
    /\ [][(pc = "show_image" /\ mout = <<NoDeviceMessage>> /\ escaped' = "none") =>
             (/\ tk_img' = Some(current.photo)
              /\ current' = current /\ playing' = playing)]_vars

\* With an empty device listing the sampled photo is on the label, nothing was
\* ever played, and the program is back in the main loop.
C9_Witness ==
    /\ pc = "mainloop" /\ escaped = "none"
    /\ mout = <<NoDeviceMessage>>
    /\ playing = <<>>
    /\ current # <<>> /\ tk_img = Some(current.photo)

====
